---- MODULE Spec2Model ----
\* Bike Stats code (BikeCode.ipynb): the ride-metrics deriver, the
\* Eddington-number functions, the wandrer badge / progress estimator and
\* the duration parser, as state machines over calls of these functions.
\*
\* Number representation.  The notebook computes in Python floats
\* (IEEE-754 binary64).  Decimal inputs are held in the state as integers
\* counting hundredths (miles 1.3 is 130, pct 99.94 is 9994) and are
\* converted to binary64 where the code computes with them; binary64
\* arithmetic is modelled exactly (round-to-nearest-even on a 53 bit
\* significand), on numbers of any size held as sequences of limbs.
EXTENDS Integers, Sequences, FiniteSets, TLC

VARIABLES frame,   \* the table (pandas DataFrame) the caller holds
          pc,      \* the function called last ("start" before any call)
          arg,     \* the arguments of that call
          ret      \* what the call returned or raised
vars == <<frame, pc, arg, ret>>

Return(v) == [ok |-> TRUE, val |-> v]
Raise(e) == [ok |-> FALSE, val |-> e]
IsReturn(r, v) == r.ok /\ r.val = v
IsRaise(r, e) == ~r.ok /\ r.val = e

\* ---------------------------------------------------------------------
\* Natural numbers of any size, as little-endian sequences of limbs
\* (TLC's integers are 32 bits wide, a binary64 significand has 53).
BASE == 1024
LimbBits == 10
Prec == 53

RECURSIVE Pow2(_)
Pow2(k) == IF k = 0 THEN 1 ELSE 2 * Pow2(k - 1)

RECURSIVE BNorm(_)
BNorm(a) == IF a = <<>> THEN <<>>
            ELSE IF a[Len(a)] = 0 THEN BNorm(SubSeq(a, 1, Len(a) - 1)) ELSE a

RECURSIVE BFromInt(_)
BFromInt(n) == IF n = 0 THEN <<>> ELSE <<n % BASE>> \o BFromInt(n \div BASE)

RECURSIVE BToInt(_)
BToInt(a) == IF a = <<>> THEN 0 ELSE a[1] + BASE * BToInt(Tail(a))

Limb(a, i) == IF i <= Len(a) THEN a[i] ELSE 0

RECURSIVE BAddC(_, _, _, _)
BAddC(a, b, i, c) ==
    IF i > Len(a) /\ i > Len(b) THEN (IF c = 0 THEN <<>> ELSE <<c>>)
    ELSE LET s == Limb(a, i) + Limb(b, i) + c
         IN  <<s % BASE>> \o BAddC(a, b, i + 1, s \div BASE)
BAdd(a, b) == BAddC(a, b, 1, 0)

RECURSIVE BSubC(_, _, _, _)
BSubC(a, b, i, c) ==
    IF i > Len(a) THEN <<>>
    ELSE LET s == Limb(a, i) - Limb(b, i) - c
         IN  <<s % BASE>> \o BSubC(a, b, i + 1, IF s < 0 THEN 1 ELSE 0)
BSub(a, b) == BNorm(BSubC(a, b, 1, 0))

RECURSIVE BMulC(_, _, _, _)
BMulC(a, k, i, c) ==
    IF i > Len(a) THEN BFromInt(c)
    ELSE LET s == a[i] * k + c
         IN  <<s % BASE>> \o BMulC(a, k, i + 1, s \div BASE)
BMulSmall(a, k) == IF k = 0 THEN <<>> ELSE BMulC(a, k, 1, 0)

BShiftLimbs(a, w) == IF a = <<>> THEN <<>> ELSE [i \in 1..w |-> 0] \o a

RECURSIVE BMul(_, _)
BMul(a, b) == IF b = <<>> THEN <<>>
              ELSE BAdd(BMulSmall(a, b[1]), BShiftLimbs(BMul(a, Tail(b)), 1))

RECURSIVE BDivRec(_, _)
BDivRec(a, d) ==
    IF a = <<>> THEN [q |-> <<>>, r |-> 0]
    ELSE LET hi  == BDivRec(Tail(a), d)
             cur == hi.r * BASE + a[1]
         IN  [q |-> <<cur \div d>> \o hi.q, r |-> cur % d]
BDivSmall(a, d) == LET qr == BDivRec(a, d) IN [q |-> BNorm(qr.q), r |-> qr.r]

RECURSIVE BCmpAt(_, _, _)
BCmpAt(a, b, i) == IF i = 0 THEN 0
                   ELSE IF a[i] < b[i] THEN -1
                   ELSE IF a[i] > b[i] THEN 1
                   ELSE BCmpAt(a, b, i - 1)
BCmp(a, b) == IF Len(a) < Len(b) THEN -1
              ELSE IF Len(a) > Len(b) THEN 1
              ELSE BCmpAt(a, b, Len(a))

RECURSIVE SmallBitLen(_)
SmallBitLen(n) == IF n = 0 THEN 0 ELSE 1 + SmallBitLen(n \div 2)
BitLen(a) == IF a = <<>> THEN 0
             ELSE (Len(a) - 1) * LimbBits + SmallBitLen(a[Len(a)])

BShl(a, k) == BShiftLimbs(BMulSmall(a, Pow2(k % LimbBits)), k \div LimbBits)
BShr(a, k) == LET w == k \div LimbBits
              IN  IF w >= Len(a) THEN <<>>
                  ELSE BDivSmall(SubSeq(a, w + 1, Len(a)), Pow2(k % LimbBits)).q
BOdd(a) == a # <<>> /\ a[1] % 2 = 1

\* floor and round-half-to-even of (M + s) * 2^(-k), where 0 <= s < 1 is
\* nonzero iff sticky.
BRoundShr(M, k, sticky) ==
    IF k = 0 THEN M
    ELSE LET q    == BShr(M, k)
             rem  == BSub(M, BShl(q, k))
             c    == BCmp(rem, BShl(<<1>>, k - 1))
             up   == c > 0 \/ (c = 0 /\ (sticky \/ BOdd(q)))
         IN  IF up THEN BAdd(q, <<1>>) ELSE q

\* ---------------------------------------------------------------------
\* IEEE-754 binary64, non-negative finite values: [m, e] is m * 2^e with
\* m = <<>> (zero) or BitLen(m) = 53.  Round53 is round-to-nearest-even.
FZero == [m |-> <<>>, e |-> 0]
Round53(M, E, sticky) ==
    LET n == BitLen(M)
    IN  IF n = 0 THEN FZero
        ELSE IF n <= Prec THEN [m |-> BShl(M, Prec - n), e |-> E - (Prec - n)]
        ELSE LET q == BRoundShr(M, n - Prec, sticky)
             IN  IF BitLen(q) > Prec
                 THEN [m |-> BShr(q, 1), e |-> E + (n - Prec) + 1]
                 ELSE [m |-> q, e |-> E + (n - Prec)]

FInt(n) == Round53(BFromInt(n), 0, FALSE)
FMul(a, b) == Round53(BMul(a.m, b.m), a.e + b.e, FALSE)
DivGuard == 24
FDivInt(a, d) == LET qr == BDivSmall(BShl(a.m, DivGuard), d)
                 IN  Round53(qr.q, a.e - DivGuard, qr.r # 0)
FDec(n, d) == FDivInt(FInt(n), d)
FAlign(a, b) == LET e == IF a.e < b.e THEN a.e ELSE b.e
                IN  [a |-> BShl(a.m, a.e - e), b |-> BShl(b.m, b.e - e), e |-> e]
FCmp(a, b) == IF a.m = <<>> THEN (IF b.m = <<>> THEN 0 ELSE -1)
              ELSE IF b.m = <<>> THEN 1
              ELSE LET al == FAlign(a, b) IN BCmp(al.a, al.b)
FAdd(a, b) == IF a.m = <<>> THEN b ELSE IF b.m = <<>> THEN a
              ELSE LET al == FAlign(a, b) IN Round53(BAdd(al.a, al.b), al.e, FALSE)
FSub(a, b) == IF b.m = <<>> THEN a
              ELSE LET al == FAlign(a, b) IN Round53(BSub(al.a, al.b), al.e, FALSE)
\* round-half-even of a * k to an integer (k a small positive integer)
FRound(a, k) == LET M == BMulSmall(a.m, k)
                IN  IF a.m = <<>> THEN 0
                    ELSE IF a.e >= 0 THEN BToInt(BShl(M, a.e))
                    ELSE BToInt(BRoundShr(M, -a.e, FALSE))

\* a / b for non-zero a and b: 56 further quotient bits by long division,
\* the remainder as the sticky bit
BDivStep(s, B) ==
    LET R2 == BMulSmall(s.r, 2)
        ge == BCmp(R2, B) >= 0
    IN  [q |-> BAdd(BMulSmall(s.q, 2), IF ge THEN <<1>> ELSE <<>>),
         r |-> IF ge THEN BSub(R2, B) ELSE R2]
RECURSIVE BDivBits(_, _, _)
BDivBits(s, B, n) == IF n = 0 THEN s
                     ELSE IF s.r = <<>> THEN [q |-> BShl(s.q, n), r |-> <<>>]
                     ELSE BDivBits(BDivStep(s, B), B, n - 1)
QuotBits == 56
FDiv(a, b) ==
    LET ge == BCmp(a.m, b.m) >= 0
        qr == BDivBits([q |-> IF ge THEN <<1>> ELSE <<>>,
                        r |-> IF ge THEN BSub(a.m, b.m) ELSE a.m], b.m, QuotBits)
    IN  Round53(qr.q, a.e - b.e - QuotBits, qr.r # <<>>)

\* ---------------------------------------------------------------------
\* Text: a Python str is a sequence of one-character strings.
Digits == <<"0", "1", "2", "3", "4", "5", "6", "7", "8", "9">>
IsDigit(c) == \E d \in 1..10 : Digits[d] = c
DigitVal(c) == (CHOOSE d \in 1..10 : Digits[d] = c) - 1

\* str.split(sep) for a one-character separator
RECURSIVE Split(_, _)
Split(s, sep) ==
    IF \A i \in 1..Len(s) : s[i] # sep THEN <<s>>
    ELSE LET i == CHOOSE j \in 1..Len(s) :
                     s[j] = sep /\ \A k \in 1..(j - 1) : s[k] # sep
         IN  <<SubSeq(s, 1, i - 1)>> \o Split(SubSeq(s, i + 1, Len(s)), sep)

Reversed(s) == [i \in 1..Len(s) |-> s[Len(s) - i + 1]]

RECURSIVE Strip(_)
Strip(s) == IF s = <<>> THEN s
            ELSE IF s[1] = " " THEN Strip(Tail(s))
            ELSE IF s[Len(s)] = " " THEN Strip(SubSeq(s, 1, Len(s) - 1))
            ELSE s

RECURSIVE DigitsValue(_)
DigitsValue(s) == IF s = <<>> THEN 0
                  ELSE 10 * DigitsValue(SubSeq(s, 1, Len(s) - 1)) + DigitVal(s[Len(s)])

\* int(text) for unsigned text: surrounding blanks are ignored, what is left
\* must be one or more decimal digits
ParseInt(text) ==
    LET t == Strip(text)
    IN  IF t = <<>> \/ \E i \in 1..Len(t) : ~IsDigit(t[i])
        THEN Raise("ValueError")
        ELSE Return(DigitsValue(t))

\* ---------------------------------------------------------------------
\* Tables.  A frame is [cols, index, rows]: the column names in order, one
\* index label per row, and the rows as records.
Hundredths == 100
RangeIndex(n) == [i \in 1..n |-> ToString(i - 1)]
BlankIndex(n) == [i \in 1..n |-> ""]
Column(f, c) == [i \in 1..Len(f.rows) |-> f.rows[i][c]]

\* drop_index sets the index of the frame it is given and returns that
\* same frame.
drop_index(f) == [f EXCEPT !.index = BlankIndex(Len(f.rows))]

\* numpy's round(x, d): rint(x * 10^d) / 10^d; the result is given as the
\* integer rint(x * 10^d), k = 10^d.
NRound(x, k) == FRound(FMul(x, FInt(k)), 1)

\* kms = round(mi * 1.609, 2), in hundredths
Kms(miles) == NRound(FMul(FDec(miles, Hundredths), FDec(1609, 1000)), Hundredths)

\* ---------------------------------------------------------------------
\* Eddington number
RECURSIVE Insert(_, _)
Insert(x, s) == IF s = <<>> THEN <<x>>
                ELSE IF x >= s[1] THEN <<x>> \o s
                ELSE <<s[1]>> \o Insert(x, Tail(s))
RECURSIVE SortedDesc(_)
SortedDesc(s) == IF s = <<>> THEN <<>> ELSE Insert(s[1], SortedDesc(Tail(s)))

SetMax(S) == CHOOSE x \in S : \A y \in S : y <= x

\* mutant: the scan compares with > where the code has >=
Ed_number_strict(rides, units) ==
    LET distances == SortedDesc(Column(rides, units))
        es == {e \in 1..Len(distances) : distances[e] > e * Hundredths}
    IN  IF es = {} THEN Raise("ValueError") ELSE Return(SetMax(es))

Ed_number(rides, units) ==
    LET distances == SortedDesc(Column(rides, units))
        es == {e \in 1..Len(distances) : distances[e] >= e * Hundredths}
    IN  IF es = {} THEN Raise("ValueError") ELSE Return(SetMax(es))

count(distances, target) ==
    Cardinality({i \in 1..Len(distances) : distances[i] >= target * Hundredths})

Ed_gap(distances, target) == target - count(distances, target)

EdGapsN == 9
Ed_gaps(rides, N) ==
    LET km == Ed_number(rides, "kms")
        mi == Ed_number(rides, "miles")
    IN  IF ~km.ok THEN km
        ELSE IF ~mi.ok THEN mi
        ELSE LET E_km == km.val + 1
                 E_mi == mi.val + 1
                 data == [d \in 1..N |->
                            [kms |-> E_km + d - 1,
                             kms_gap |-> Ed_gap(Column(rides, "kms"), E_km + d - 1),
                             miles |-> E_mi + d - 1,
                             miles_gap |-> Ed_gap(Column(rides, "miles"), E_mi + d - 1)]]
             IN  Return(drop_index([cols |-> <<"kms", "kms gap", "miles", "miles gap">>,
                                    index |-> RangeIndex(N), rows |-> data]))

YearFrom == 2024
YearStop == 2013
DefaultYears == [i \in 1..(YearFrom - YearStop) |-> YearFrom - i + 1]

RECURSIVE SelectRows(_, _)
SelectRows(rows, keep) ==
    IF rows = <<>> THEN <<>>
    ELSE (IF keep[1] THEN <<rows[1]>> ELSE <<>>)
         \o SelectRows(Tail(rows), Tail(keep))
\* rides[rides['year'] <= year]: a new frame of the selected rows
UpToYear(rides, year) ==
    LET keep == [i \in 1..Len(rides.rows) |-> rides.rows[i].year <= year]
    IN  [rides EXCEPT !.rows = SelectRows(rides.rows, keep),
                      !.index = SelectRows(rides.index, keep)]

RECURSIVE FirstError(_)
FirstError(s) == IF s = <<>> THEN Return(0)
                 ELSE IF ~s[1].ok THEN s[1] ELSE FirstError(Tail(s))
Ed_progress(rides, years) ==
    LET Ed(year, unit) == Ed_number(UpToYear(rides, year), unit)
        calls == [i \in 1..(2 * Len(years)) |->
                    IF i % 2 = 1 THEN Ed(years[(i + 1) \div 2], "kms")
                    ELSE Ed(years[i \div 2], "miles")]
        err == FirstError(calls)
        data == [i \in 1..Len(years) |->
                    [year |-> years[i], Ed_km |-> calls[2 * i - 1].val,
                     Ed_mi |-> calls[2 * i].val]]
    IN  IF ~err.ok THEN err
        ELSE Return(drop_index([cols |-> <<"year", "Ed_km", "Ed_mi">>,
                                index |-> RangeIndex(Len(years)), rows |-> data]))

\* --- the calls: one call per behaviour, made in the state "start" ------
MaxRides == 3
MaxMiles == 3
MaxTarget == 4
Units == {"kms", "miles"}
MilesVals == {50} \cup {Hundredths * i : i \in 0..MaxMiles}
\* the first and the last year of the default range of Ed_progress
RideYears == {YearStop + 1, YearFrom}
\* one ride with the kms column add_ride_columns derives from its miles
RideRows == {[year |-> y, miles |-> mi, kms |-> Kms(mi)] : y \in RideYears, mi \in MilesVals}
RECURSIVE SeqsUpTo(_, _)
SeqsUpTo(S, n) == IF n = 0 THEN {<<>>}
                  ELSE LET shorter == SeqsUpTo(S, n - 1)
                       IN  shorter \cup {Append(s, x) : s \in {t \in shorter : Len(t) = n - 1}, x \in S}
\* the rides table as parse_rides leaves it: derived column kms, blank index
RidesFrame(rows) ==
    [cols |-> <<"year", "miles", "kms">>,
     index |-> BlankIndex(Len(rows)),
     rows |-> rows]

InitEd == /\ frame \in {RidesFrame(rows) : rows \in SeqsUpTo(RideRows, MaxRides)}
          /\ pc = "start"
          /\ arg = <<>>
          /\ ret = Return(0)

Call_Ed_number ==
    \E units \in Units :
        /\ pc = "start"
        /\ pc' = "Ed_number"
        /\ arg' = <<units>>
        /\ ret' = Ed_number(frame, units)
        /\ UNCHANGED frame

Call_Ed_gap ==
    \E units \in Units, target \in 0..MaxTarget :
        /\ pc = "start"
        /\ pc' = "Ed_gap"
        /\ arg' = <<units, target>>
        /\ ret' = Return(Ed_gap(Column(frame, units), target))
        /\ UNCHANGED frame

Call_Ed_gaps ==
    /\ pc = "start"
    /\ pc' = "Ed_gaps"
    /\ arg' = <<EdGapsN>>
    /\ ret' = Ed_gaps(frame, EdGapsN)
    /\ UNCHANGED frame

Call_Ed_progress ==
    /\ pc = "start"
    /\ pc' = "Ed_progress"
    /\ arg' = <<DefaultYears>>
    /\ ret' = Ed_progress(frame, DefaultYears)
    /\ UNCHANGED frame

NextEd == Call_Ed_number \/ Call_Ed_gap \/ Call_Ed_gaps \/ Call_Ed_progress
SpecEd == InitEd /\ [][NextEd]_vars

\* --- claims ----------------------------------------------------------
Qualifying(distances, e) ==
    Cardinality({i \in 1..Len(distances) : distances[i] >= e * Hundredths})
BruteForceE(distances) ==
    SetMax({e \in 0..Len(distances) : Qualifying(distances, e) >= e})
HasRideOfOne(distances) == \E i \in 1..Len(distances) : distances[i] >= Hundredths

\* C1: whenever the sequence has an entry >= 1, Ed_number returns the
\* maximum integer E such that at least E entries are >= E.
C1_EdNumberIsMaxE ==
    (pc = "Ed_number" /\ HasRideOfOne(Column(frame, arg[1])))
        => (ret.ok /\ ret.val = BruteForceE(Column(frame, arg[1])))
\* a call on an unsorted table whose Eddington number is 2 or more
C1_Witness ==
    /\ pc = "Ed_number" /\ ret.ok /\ ret.val >= 2
    /\ \E i \in 1..(Len(frame.rows) - 1) :
           frame.rows[i][arg[1]] < frame.rows[i + 1][arg[1]]

\* C2: Ed_number returns 0 when the sequence is empty or every distance is
\* below 1 (also for a year cutoff of Ed_progress before which no ride
\* qualifies); it does not end in an error.
C2_EdNumberZero ==
    /\ (pc = "Ed_number" /\ ~HasRideOfOne(Column(frame, arg[1])))
           => (ret.ok /\ ret.val = 0)
    /\ pc = "Ed_progress" => ret.ok

\* C10: Ed_gap returns T - count(d >= T); a positive gap g is exactly the
\* number of further rides of length >= T needed: with g more such rides the
\* Eddington number is >= T, with fewer it is still < T; and every gap that
\* Ed_gaps reports is >= 1.
WithMore(distances, k, d) == distances \o [i \in 1..k |-> d]
EdOf(distances) == Ed_number([rows |-> [i \in 1..Len(distances) |-> [d |-> distances[i]]]], "d")
C10_EdGapExact ==
    /\ pc = "Ed_gap" =>
         LET distances == Column(frame, arg[1])
             T == arg[2]
             g == ret.val
         IN  /\ g = T - Qualifying(distances, T)
             /\ g > 0 =>
                  \A d \in {T * Hundredths, T * Hundredths + 50} :
                     /\ LET E == EdOf(WithMore(distances, g, d))
                        IN  E.ok /\ E.val >= T
                     /\ \A k \in 0..(g - 1) :
                          LET E == EdOf(WithMore(distances, k, d))
                          IN  E.ok /\ E.val < T
    /\ (pc = "Ed_gaps" /\ ret.ok) =>
         \A i \in 1..Len(ret.val.rows) :
            ret.val.rows[i].kms_gap >= 1 /\ ret.val.rows[i].miles_gap >= 1

\* ---------------------------------------------------------------------
\* Ride-metrics deriver.  A column value computed by numpy is
\* [kind, v]: finite (v counts units of the rounding step), inf or nan.
XFin(f) == [kind |-> "finite", f |-> f]
XInf == [kind |-> "inf", f |-> FZero]
XNaN == [kind |-> "nan", f |-> FZero]
\* numpy float division: x / 0 is inf, 0 / 0 is nan, no error is raised
XDiv(a, b) == IF a.kind # "finite" THEN a
              ELSE IF b.m = <<>> THEN (IF a.f.m = <<>> THEN XNaN ELSE XInf)
              ELSE IF a.f.m = <<>> THEN XFin(FZero)
              ELSE XFin(FDiv(a.f, b))
XMul(a, b) == IF a.kind # "finite" THEN a ELSE XFin(FMul(a.f, b))
XRound(a, k) == [kind |-> a.kind, v |-> IF a.kind = "finite" THEN NRound(a.f, k) ELSE 0]

\* One assigned column is round(x op y op z ..., d): x and the operands are
\* decimals n / d, evaluated left to right as Python does.
Dec(n, d) == [n |-> n, d |-> d]
Over(n, d) == [op |-> "/", n |-> n, d |-> d]
Times(n, d) == [op |-> "*", n |-> n, d |-> d]
XStep(x, s) == IF s.op = "/" THEN XDiv(x, FDec(s.n, s.d)) ELSE XMul(x, FDec(s.n, s.d))
RECURSIVE XChain(_, _)
XChain(x, steps) == IF steps = <<>> THEN x
                    ELSE XChain(XStep(x, Head(steps)), Tail(steps))
XColumn(c) == XRound(XChain(XFin(FDec(c.x.n, c.x.d)), c.steps), c.places)

\* the columns assigned by add_ride_columns for one ride (hours and miles
\* in hundredths, feet an integer)
RideColumns(hours, miles, feet) ==
    LET mi == Dec(miles, Hundredths)
        hr == Dec(hours, Hundredths)
        ft == Dec(feet, 1)
        assign ==
          [mph    |-> [x |-> mi, steps |-> <<Over(hr.n, hr.d)>>, places |-> Hundredths],
           vam    |-> [x |-> ft, steps |-> <<Over(hr.n, hr.d), Over(328084, 100000)>>,
                       places |-> 1],
           fpmi   |-> [x |-> ft, steps |-> <<Over(mi.n, mi.d)>>, places |-> 1],
           pct    |-> [x |-> ft, steps |-> <<Over(mi.n, mi.d), Times(100, 1), Over(5280, 1)>>,
                       places |-> Hundredths],
           kms    |-> [x |-> mi, steps |-> <<Times(1609, 1000)>>, places |-> Hundredths],
           meters |-> [x |-> ft, steps |-> <<Times(3048, 10000)>>, places |-> 1]]
    IN  [c \in DOMAIN assign |-> XColumn(assign[c])]
AssignedCols == <<"mph", "vam", "fpmi", "pct", "kms", "meters">>


InSeq(x, s) == \E i \in 1..Len(s) : s[i] = x
InsertAt(s, pos, x) == SubSeq(s, 1, pos) \o <<x>> \o SubSeq(s, pos + 1, Len(s))

\* int(str(d).split('/')[-1])
YearOfDate(d) == LET parts == Split(d, "/") IN ParseInt(parts[Len(parts)])

\* add_ride_columns(rides): [rides |-> the caller's table after the call,
\* out |-> the returned table].  The year column is inserted into the
\* table that was passed in; assign builds a new table.
add_ride_columns(rides) ==
    LET n == Len(rides.rows)
        needYear == InSeq("date", rides.cols) /\ ~InSeq("year", rides.cols)
        years == [i \in 1..n |-> YearOfDate(rides.rows[i].date)]
        bad == {i \in 1..n : ~years[i].ok}
        withYear ==
            IF needYear
            THEN [rides EXCEPT
                    !.cols = InsertAt(rides.cols, 1, "year"),
                    !.rows = [i \in 1..n |-> [year |-> years[i].val] @@ rides.rows[i]]]
            ELSE rides
        Assigned(row) == RideColumns(row.hours, row.miles, row.feet)
        assigned ==
            [withYear EXCEPT
               !.cols = withYear.cols
                          \o SelectSeq(AssignedCols, LAMBDA c : ~InSeq(c, withYear.cols)),
               !.rows = [i \in 1..n |-> Assigned(withYear.rows[i]) @@ withYear.rows[i]]]
    IN  IF needYear /\ bad # {}
        THEN [rides |-> rides, out |-> Raise("ValueError")]
        ELSE [rides |-> withYear, out |-> Return(assigned)]

\* frame.sort_values(field, ascending=False).head(n): the orders a sort
\* that need not be stable can give (pandas' default is quicksort)
Perms(n) == {p \in [1..n -> 1..n] : \A i, j \in 1..n : i # j => p[i] # p[j]}
DescendingOrders(f, field) ==
    {p \in Perms(Len(f.rows)) :
        \A i \in 1..(Len(f.rows) - 1) : f.rows[p[i]][field] >= f.rows[p[i + 1]][field]}
SortedHead(f, p, n) ==
    LET k == IF n < Len(f.rows) THEN n ELSE Len(f.rows)
    IN  [f EXCEPT !.rows = [i \in 1..k |-> f.rows[p[i]]],
                  !.index = [i \in 1..k |-> f.index[p[i]]]]
top(f, field, n) == {drop_index(SortedHead(f, p, n)) : p \in DescendingOrders(f, field)}
TopN == 20

\* --- the calls: one call per behaviour, made in the state "start" ------
MaxRows == 2
HoursVals == {0, 450}
RideMilesVals == {0, 8005}
FeetVals == {541}
Date2014 == <<"1", "0", "/", "5", "/", "2", "0", "1", "4">>
Date2020 == <<"M", "o", "n", ",", " ", "1", "0", "/", "5", "/", "2", "0", "2", "0">>
DateVals == {Date2014, Date2020}
RawRows == [date : DateVals, hours : HoursVals, miles : RideMilesVals, feet : FeetVals]
\* the table as read_table gives it, without or with a year column
RawFrame(rows, hasYear) ==
    [cols |-> IF hasYear THEN <<"date", "year", "hours", "miles", "feet">>
              ELSE <<"date", "hours", "miles", "feet">>,
     index |-> RangeIndex(Len(rows)),
     rows |-> IF hasYear
              THEN [i \in 1..Len(rows) |-> [year |-> YearOfDate(rows[i].date).val] @@ rows[i]]
              ELSE rows]

InitFrame == /\ frame \in {RawFrame(rows, hasYear) :
                             rows \in SeqsUpTo(RawRows, MaxRows), hasYear \in BOOLEAN}
             /\ pc = "start"
             /\ arg = <<>>
             /\ ret = Return(0)

Call_add_ride_columns ==
    LET r == add_ride_columns(frame)
    IN  /\ pc = "start"
        /\ pc' = "add_ride_columns"
        /\ arg' = <<frame>>
        /\ frame' = r.rides
        /\ ret' = r.out

Call_drop_index ==
    /\ pc = "start"
    /\ pc' = "drop_index"
    /\ arg' = <<frame>>
    /\ frame' = drop_index(frame)
    /\ ret' = Return(frame')

Call_top ==
    \E field \in {"hours", "miles", "feet"}, n \in {1, TopN} :
        /\ pc = "start"
        /\ pc' = "top"
        /\ arg' = <<frame, field, n>>
        /\ ret' \in {Return(t) : t \in top(frame, field, n)}
        /\ UNCHANGED frame

NextFrame == Call_add_ride_columns \/ Call_drop_index \/ Call_top
SpecFrame == InitFrame /\ [][NextFrame]_vars

\* --- claims ----------------------------------------------------------
ZeroRecord(f) == \E i \in 1..Len(f.rows) : f.rows[i].hours = 0 \/ f.rows[i].miles = 0
RatioCols == {"mph", "vam", "fpmi", "pct"}
NotFinite(f) ==
    \E i \in 1..Len(f.rows) : \E c \in RatioCols : f.rows[i][c].kind # "finite"

\* C8: a ride record with hours = 0 or miles = 0 makes add_ride_columns fail
\* with an InvalidRecordError, and no NaN or infinite mph, VAM, fpmi or pct
\* grade is ever produced.
C8_ZeroRecordRejected ==
    pc = "add_ride_columns" =>
        /\ ZeroRecord(arg[1]) => IsRaise(ret, "InvalidRecordError")
        /\ ret.ok => ~NotFinite(ret.val)

\* C9: no operation changes a table that was passed to it: after every
\* call the caller's table has the columns, index and values it had before.
C9_InputsNotMutated == [][frame' = frame]_vars

\* ---------------------------------------------------------------------
\* Wandrer badges.  Percentages and miles are held in hundredths.
Pct(p) == FDec(p, Hundredths)

BadgeTiers == <<99, 90, 75, 50, 25>>
\* mutant: a tier is reached only above its threshold
badge_strict(pct) ==
    LET hits == {i \in 1..Len(BadgeTiers) : FCmp(Pct(pct), FInt(BadgeTiers[i])) > 0}
    IN  IF hits = {} THEN "none"
        ELSE ToString(BadgeTiers[CHOOSE i \in hits : \A j \in hits : i <= j]) \o "%"

badge(pct) ==
    LET hits == {i \in 1..Len(BadgeTiers) : FCmp(Pct(pct), FInt(BadgeTiers[i])) >= 0}
    IN  IF hits = {} THEN "none"
        ELSE ToString(BadgeTiers[CHOOSE i \in hits : \A j \in hits : i <= j]) \o "%"

\* --- number formatting -------------------------------------------------
RECURSIVE Pow10(_)
Pow10(k) == IF k = 0 THEN 1 ELSE 10 * Pow10(k - 1)
RECURSIVE ZeroPad(_, _)
ZeroPad(s, w) == IF Len(s) >= w THEN s ELSE ZeroPad("0" \o s, w)
RECURSIVE PadLeft(_, _)
PadLeft(s, w) == IF Len(s) >= w THEN s ELSE PadLeft(" " \o s, w)
\* f'{x:.kf}' of the value n / 10^k
Fixed(n, k) == ToString(n \div Pow10(k)) \o "." \o ZeroPad(ToString(n % Pow10(k)), k)
\* f'{n:,d}'
RECURSIVE Grouped(_)
Grouped(n) == IF n < 1000 THEN ToString(n)
              ELSE Grouped(n \div 1000) \o "," \o ZeroPad(ToString(n % 1000), 3)

Million == 1000000
\* mutant: above a million, x/1e6 to 2 decimals instead of the recursion
rounded_2dp(x) ==
    IF FCmp(x, FInt(100000)) > 0 THEN Fixed(FRound(FDivInt(x, Million), 100), 2) \o "M"
    ELSE IF FCmp(x, FInt(10)) > 0 THEN Grouped(FRound(x, 1))
    ELSE Fixed(FRound(x, 10), 1)

RECURSIVE rounded(_)
rounded(x) ==
    IF FCmp(x, FInt(Million)) > 0 THEN rounded(FDivInt(x, Million)) \o "M"
    ELSE IF FCmp(x, FInt(100000)) > 0 THEN Fixed(FRound(FDivInt(x, Million), 100), 2) \o "M"
    ELSE IF FCmp(x, FInt(10)) > 0 THEN Grouped(FRound(x, 1))
    ELSE Fixed(FRound(x, 10), 1)

\* --- to_go -------------------------------------------------------------
\* A tier table is the dict in insertion order: b the threshold (in
\* hundredths of a percent), str its text, bonus the multiplier (hundredths).
Tier(b, str, bonus) == [b |-> b, str |-> str, bonus |-> bonus]
bonuses == << Tier(2, "0.02", 0), Tier(10, "0.1", 0), Tier(20, "0.2", 0),
              Tier(100, "1", 0), Tier(200, "2", 0), Tier(2500, "25", 25),
              Tier(5000, "50", 5), Tier(7500, "75", 10), Tier(9000, "90", 50),
              Tier(9900, "99", 10) >>
big_bonuses == << Tier(2500, "25", 25), Tier(9000, "90", 50) >>

Done(pct, miles) == FDivInt(FMul(Pct(pct), FDec(miles, Hundredths)), 100)
Target(tier, miles) == FMul(FDivInt(Pct(tier.b), 100), FDec(miles, Hundredths))
\* the position in the table of the first b with done < b / 100 * miles,
\* 0 when the loop ends without one
\* mutant: the loop keeps the last match instead of returning at the first
NextTierLast(pct, miles, table) ==
    LET hits == {i \in 1..Len(table) : FCmp(Done(pct, miles), Target(table[i], miles)) < 0}
    IN  IF hits = {} THEN 0 ELSE CHOOSE i \in hits : \A j \in hits : i >= j

NextTier(pct, miles, table) ==
    LET hits == {i \in 1..Len(table) : FCmp(Done(pct, miles), Target(table[i], miles)) < 0}
    IN  IF hits = {} THEN 0 ELSE CHOOSE i \in hits : \A j \in hits : i <= j
Delta(pct, miles, tier) == FSub(Target(tier, miles), Done(pct, miles))
Points(pct, miles, tier) ==
    FAdd(FMul(FDec(tier.bonus, Hundredths), FDec(miles, Hundredths)), Delta(pct, miles, tier))
\* f'{rounded(delta):>5} mi to {b}% ({rounded(bonuses[b] * miles + delta)} points)'
ToGoText(pct, miles, tier) ==
    PadLeft(rounded(Delta(pct, miles, tier)), 5) \o " mi to "
        \o tier.str \o "% (" \o rounded(Points(pct, miles, tier)) \o " points)"
to_go(pct, miles, table) ==
    LET i == NextTier(pct, miles, table)
    IN  IF i = 0 THEN "" ELSE ToGoText(pct, miles, table[i])

\* --- the calls: one call per behaviour, made in the state "start" ------
MaxPct == 100
\* every half percent up to MaxPct, and some values in between
PctVals == {i * 50 : i \in 0..(2 * MaxPct)} \cup {2, 10, 20, 2490, 9994}
SMC_miles == 282730
PlaceMiles == {0, 130, 100000, SMC_miles}
MaxTenths == 120
RoundedArgs == {[n |-> i, d |-> 10] : i \in 0..MaxTenths}
                 \cup {[n |-> i, d |-> 1] : i \in {99999, 100000, 100001, 125000,
                                                   150000, 999999, Million, Million + 1,
                                                   1250000, 1500000, 15000000}}

InitBadge == /\ frame = <<>>
             /\ pc = "start"
             /\ arg = <<>>
             /\ ret = ""

Call_badge ==
    \E pct \in PctVals :
        /\ pc = "start"
        /\ pc' = "badge"
        /\ arg' = <<pct>>
        /\ ret' = badge(pct)
        /\ UNCHANGED frame

Call_to_go ==
    \E pct \in PctVals, miles \in PlaceMiles, table \in {bonuses, big_bonuses} :
        /\ pc = "start"
        /\ pc' = "to_go"
        /\ arg' = <<pct, miles, table>>
        /\ ret' = to_go(pct, miles, table)
        /\ UNCHANGED frame

Call_rounded ==
    \E x \in RoundedArgs :
        /\ pc = "start"
        /\ pc' = "rounded"
        /\ arg' = <<x>>
        /\ ret' = rounded(FDec(x.n, x.d))
        /\ UNCHANGED frame

NextBadge == Call_badge \/ Call_to_go \/ Call_rounded
SpecBadge == InitBadge /\ [][NextBadge]_vars

\* --- claims ----------------------------------------------------------
\* C3: badge(p) is the highest tier t of 99, 90, 75, 50, 25 with p >= t, as
\* 't%', and 'none' exactly when p < 25; badge(99.94) = '99%',
\* badge(24.9) = 'none', badge(100) = '99%'.
C3_BadgeIsHighestTier ==
    pc = "badge" =>
        LET p == arg[1]
            reached == {t \in {99, 90, 75, 50, 25} : p >= t * Hundredths}
        IN  /\ reached # {} => ret = ToString(SetMax(reached)) \o "%"
            /\ ret = "none" <=> p < 25 * Hundredths
            /\ p = 9994 => ret = "99%"
            /\ p = 2490 => ret = "none"
            /\ p = 10000 => ret = "99%"
C3_Witness == pc = "badge" /\ arg[1] = 7500 /\ ret = "75%"

\* The exact values, in units of 1/10000 mile, of the delta and the points
\* for a tier (pct and b in hundredths of a percent, miles in hundredths).
ExactDelta(pct, miles, tier) ==
    LET D == tier.b - pct
    IN  D * (miles \div 100) + (D * (miles % 100)) \div 100
ExactPoints(pct, miles, tier) == tier.bonus * miles + ExactDelta(pct, miles, tier)
Near(x, n) == LET v == FRound(x, 10000) IN v - n <= 1 /\ n - v <= 1
ReportsTier(pct, miles, tier) ==
    /\ ret = ToGoText(pct, miles, tier)
    /\ Near(Delta(pct, miles, tier), ExactDelta(pct, miles, tier))
    /\ Near(Points(pct, miles, tier), ExactPoints(pct, miles, tier))

\* C4: to_go reports the first threshold b, in the table's order, whose
\* target miles b*m/100 exceed the done miles p*m/100, with delta the
\* difference and points = bonus(b)*m + delta; it returns '' exactly when no
\* threshold's target exceeds the done miles.  With the table {25: .25,
\* 90: .50} and m > 0: tier 25 for p < 25, tier 90 for 25 <= p < 90, ''
\* for p >= 90.
C4_ToGoFirstExceeding ==
    pc = "to_go" =>
        LET p == arg[1]
            m == arg[2]
            table == arg[3]
            above == {i \in 1..Len(table) : m > 0 /\ table[i].b > p}
            first == CHOOSE i \in above : \A j \in above : i <= j
        IN  /\ ret = "" <=> above = {}
            /\ above # {} => ReportsTier(p, m, table[first])
            /\ (table = big_bonuses /\ m > 0) =>
                 /\ p < 2500 => ret = ToGoText(p, m, big_bonuses[1])
                 /\ (2500 <= p /\ p < 9000) => ret = ToGoText(p, m, big_bonuses[2])
                 /\ p >= 9000 => ret = ""

\* C5 as stated: to_go(20, 1000) with the full table points at the 25% tier
\* with delta 50 and 300 points, the text showing the delta as "50.0" and
\* the points as "300".
C5_ToGoExampleAsStated ==
    (pc = "to_go" /\ arg = <<2000, 100000, bonuses>>)
        => ret = PadLeft("50.0", 5) \o " mi to 25% (300 points)"
\* C5 amended: to_go(20, 1000) with the full table points at the 25% tier
\* with delta 50 and 300 points; the text shows the delta as "50" (right
\* aligned in 5 columns) and the points as "300".
C5_ToGoExample ==
    (pc = "to_go" /\ arg = <<2000, 100000, bonuses>>)
        => /\ ret = "   50 mi to 25% (300 points)"
           /\ NextTier(2000, 100000, bonuses) = 6
           /\ Delta(2000, 100000, bonuses[6]) = FInt(50)
           /\ Points(2000, 100000, bonuses[6]) = FInt(300)
C5_Witness == pc = "to_go" /\ arg = <<2000, 100000, bonuses>> /\ ret # ""

\* The formatting rule on exact decimals n / d.
HalfEven(a, b) == LET q == a \div b
                      r == a % b
                  IN  IF 2 * r > b \/ (2 * r = b /\ q % 2 = 1) THEN q + 1 ELSE q
\* n / d > k, without forming k * d
Exceeds(n, d, k) == n \div k > d \/ (n \div k = d /\ n % k > 0)
RECURSIVE RoundedRule(_, _)
RoundedRule(n, d) ==
    IF Exceeds(n, d, Million) THEN RoundedRule(n, d * Million) \o "M"
    ELSE IF Exceeds(n, d, 100000) THEN Fixed(HalfEven(n, d * 10000), 2) \o "M"
    ELSE IF Exceeds(n, d, 10) THEN Grouped(HalfEven(n, d))
    ELSE Fixed(HalfEven(10 * n, d), 1)
RoundedArgIs(n, d) == pc = "rounded" /\ arg[1] = [n |-> n, d |-> d]

\* C6 as stated: rounded(1_500_000) = "1.50M", rounded(15) = "15",
\* rounded(5.3) = "5.3"; x > 1,000,000 is formatted as rounded(x/1e6) + 'M',
\* x > 100,000 as x/1e6 to 2 decimals + 'M', x > 10 as a thousands-grouped
\* integer, anything else to 1 decimal place.
C6_RoundedAsStated ==
    /\ RoundedArgIs(1500000, 1) => ret = "1.50M"
    /\ RoundedArgIs(15, 1) => ret = "15"
    /\ RoundedArgIs(53, 10) => ret = "5.3"
    /\ pc = "rounded" => ret = RoundedRule(arg[1].n, arg[1].d)
\* C6 amended: rounded(1_500_000) = "1.5M" (the recursive case formats x/1e6
\* to 1 decimal place), rounded(15) = "15", rounded(5.3) = "5.3", and the
\* four cases are as stated.
C6_Rounded ==
    /\ RoundedArgIs(1500000, 1) => ret = "1.5M"
    /\ RoundedArgIs(15, 1) => ret = "15"
    /\ RoundedArgIs(53, 10) => ret = "5.3"
    /\ pc = "rounded" => ret = RoundedRule(arg[1].n, arg[1].d)
C6_Witness == RoundedArgIs(1500000, 1) /\ ret = "1.5M"

\* ---------------------------------------------------------------------
\* parse_hours
RECURSIVE Pow60(_)
Pow60(k) == IF k = 0 THEN 1 ELSE 60 * Pow60(k - 1)
\* int(x) * 60 ** (i - 2) for the field at position i (0 = rightmost):
\* 60 ** -2 and 60 ** -1 are floats, every other power is an int
HoursTerm(x, i) == IF i = 0 THEN FMul(FInt(x), FDec(1, 3600))
                   ELSE IF i = 1 THEN FMul(FInt(x), FDec(1, 60))
                   ELSE FInt(x * Pow60(i - 2))
RECURSIVE FSum(_)
FSum(terms) == IF terms = <<>> THEN FZero
               ELSE FAdd(FSum(SubSeq(terms, 1, Len(terms) - 1)), terms[Len(terms)])
\* mutant: the fields are taken left to right
parse_hours_forward(time) ==
    LET fields == Split(time, ":")
        ints == [i \in 1..Len(fields) |-> ParseInt(fields[i])]
        hrs == FSum([i \in 1..Len(fields) |-> HoursTerm(ints[i].val, i - 1)])
    IN  IF \E i \in 1..Len(fields) : ~ints[i].ok THEN Raise("ValueError")
        ELSE Return(FRound(hrs, Hundredths))

\* the result is round(hrs, 2), in hundredths of an hour
parse_hours(time) ==
    LET fields == Reversed(Split(time, ":"))
        ints == [i \in 1..Len(fields) |-> ParseInt(fields[i])]
        hrs == FSum([i \in 1..Len(fields) |-> HoursTerm(ints[i].val, i - 1)])
    IN  IF \E i \in 1..Len(fields) : ~ints[i].ok THEN Raise("ValueError")
        ELSE Return(FRound(hrs, Hundredths))

\* --- the calls: one call per behaviour, made in the state "start" ------
MaxFields == 3
FieldVals == { <<"0">>, <<"0", "0">>, <<"4">>, <<"3", "0">>, <<"2", "8">>,
               <<"4", "9">>, <<"1", "8">>, <<"5", "4">>, <<" ", "7">>,
               <<"x">>, <<"4", ".", "5">>, <<>> }
RECURSIVE Join(_)
Join(fields) == IF Len(fields) = 1 THEN fields[1]
                ELSE fields[1] \o <<":">> \o Join(Tail(fields))
TimeStrings == {Join(fs) : fs \in SeqsUpTo(FieldVals, MaxFields) \ {<<>>}}

InitParse == /\ frame = <<>>
             /\ pc = "start"
             /\ arg = <<>>
             /\ ret = Return(0)

Call_parse_hours ==
    /\ pc = "start"
    /\ \E time \in TimeStrings :
        /\ pc' = "parse_hours"
        /\ arg' = <<time>>
        /\ ret' = parse_hours(time)
        /\ UNCHANGED frame

NextParse == Call_parse_hours
SpecParse == InitParse /\ [][NextParse]_vars

\* --- claims ----------------------------------------------------------
\* a field that reads as a whole number: decimal digits, blanks around them
NumericField(f) == Strip(f) # <<>> /\ \A i \in 1..Len(Strip(f)) : IsDigit(Strip(f)[i])
RECURSIVE Seconds(_)
\* the fields as seconds, minutes, hours, ...: sum of value * 60^position
Seconds(fields) ==
    IF fields = <<>> THEN 0
    ELSE DigitsValue(Strip(fields[Len(fields)])) + 60 * Seconds(SubSeq(fields, 1, Len(fields) - 1))
Time_4_30_00 == <<"4", ":", "3", "0", ":", "0", "0">>
Time_28_49 == <<"2", "8", ":", "4", "9">>

\* C7: parse_hours maps a colon-separated string of numeric fields to the
\* hours sum(value * 60^(position - 2)), position 0 the rightmost field,
\* rounded to 2 decimal places ('4:30:00' gives 4.5, '28:49' gives 0.48); a
\* string with a non-numeric field fails with a format error.
C7_ParseHours ==
    pc = "parse_hours" =>
        LET fields == Split(arg[1], ":")
        IN  /\ (\A i \in 1..Len(fields) : NumericField(fields[i])) =>
                 /\ ret.ok
                 /\ 36 * ret.val - Seconds(fields) <= 18
                 /\ Seconds(fields) - 36 * ret.val <= 18
            /\ (\E i \in 1..Len(fields) : ~NumericField(fields[i])) =>
                 IsRaise(ret, "ValueError")
            /\ arg[1] = Time_4_30_00 => IsReturn(ret, 450)
            /\ arg[1] = Time_28_49 => IsReturn(ret, 48)
C7_Witness == pc = "parse_hours" /\ arg[1] = Time_28_49 /\ IsReturn(ret, 48)
====
